---- MODULE Spec2Model ----
(***************************************************************************)
(* goodreads-cli: the two commands of the package, lookup (a book's detail *)
(* page to one record) and search (a results page to a list of records).   *)
(*                                                                         *)
(* A text is a sequence of characters, a character a one-character string  *)
(* (a non-ASCII character is written by its code point, "U+2014").  A      *)
(* cheerio selection is the sequence of the nodes it matched, in document  *)
(* order; a document is given by the selections the code queries.          *)
(***************************************************************************)
EXTENDS Integers, Sequences, FiniteSets

VARIABLES
  cmd,          \* the executable that runs: "lookup" or "search"
  pc,           \* the position of the run
  argv,         \* process.argv from index 2 on
  searchUrl,    \* search: what buildSearchUrl returned
  html,         \* what page.content() returned, as the selections queried
  bookDetails,  \* lookup: the accumulator of parseBookDetails
  index,        \* search: the row .each() is at
  results,      \* search: the accumulator of parseSearchResults
  browser,      \* how often puppeteer.launch() succeeded and browser.close() was called
  stdout,       \* what console.log has written, in order
  stderr,       \* what console.error has written, in order
  exitCode,     \* the code the process ends with
  error,        \* the rejection of lookupBook or searchBook: "none" or the step that threw
  failures,     \* the steps of the acquisition that threw or timed out, caught or not
  calls         \* the calls of parseBookDetails that returned: input and record

\* what only the process around the extraction changes
runtime == <<browser, stdout, stderr, exitCode, error, failures, calls>>

vars == <<cmd, pc, argv, searchUrl, html, bookDetails, index, results,
          browser, stdout, stderr, exitCode, error, failures, calls>>

----------------------------------------------------------------------------
(* JavaScript values and String methods *)

\* null and undefined: one-element sequences no text equals
Null == <<"null">>
Undefined == <<"undefined">>

\* String(v), as the + operator applies it to a non-string operand
StringOf(v) ==
  IF v = Undefined THEN <<"u","n","d","e","f","i","n","e","d">>
  ELSE IF v = Null THEN <<"n","u","l","l">>
  ELSE v

\* a || b for a string-or-undefined a: the empty string, null and undefined are falsy
OrElse(a, b) == IF a = <<>> \/ a = Null \/ a = Undefined THEN b ELSE a

WhiteSpace == {" ", "\t", "\n"}
Digits == {"0","1","2","3","4","5","6","7","8","9"}

IsSpace(c) == c \in WhiteSpace

SetMin(S) == CHOOSE m \in S : \A n \in S : m <= n
SetMax(S) == CHOOSE m \in S : \A n \in S : n <= m

\* String.prototype.trim
Trim(s) ==
  LET inked == {i \in 1..Len(s) : ~IsSpace(s[i])}
  IN IF inked = {} THEN <<>> ELSE SubSeq(s, SetMin(inked), SetMax(inked))

\* the concatenation of the texts of a selection: cheerio's .text()
RECURSIVE Text(_)
Text(sel) == IF sel = <<>> THEN <<>> ELSE Head(sel) \o Text(Tail(sel))

\* cheerio's .first(): the selection of the first node, if any
First(sel) == IF sel = <<>> THEN <<>> ELSE <<Head(sel)>>

\* s.replace(/\s+/g, ' ')
RECURSIVE CollapseFrom(_, _)
CollapseFrom(s, i) ==
  IF i > Len(s) THEN <<>>
  ELSE IF ~IsSpace(s[i]) THEN <<s[i]>> \o CollapseFrom(s, i + 1)
  ELSE IF i > 1 /\ IsSpace(s[i - 1]) THEN CollapseFrom(s, i + 1)
  ELSE <<" ">> \o CollapseFrom(s, i + 1)

CollapseWhitespace(s) == CollapseFrom(s, 1)

\* s.replace(/\([^)]*\)/g, ''): from each "(" that a ")" follows, up to the
\* first such ")"
RECURSIVE StripFrom(_, _)
StripFrom(s, i) ==
  IF i > Len(s) THEN <<>>
  ELSE LET closers == {j \in (i + 1)..Len(s) : s[j] = ")"}
       IN IF s[i] = "(" /\ closers # {}
          THEN StripFrom(s, SetMin(closers) + 1)
          ELSE <<s[i]>> \o StripFrom(s, i + 1)

StripParentheticals(s) == StripFrom(s, 1)

\* s.replace(/,/g, '')
RemoveCommas(s) == SelectSeq(s, LAMBDA c : c # ",")

\* s.split(','): always at least one piece
RECURSIVE Split(_)
Split(s) ==
  LET commas == {i \in 1..Len(s) : s[i] = ","}
  IN IF commas = {} THEN <<s>>
     ELSE LET k == SetMin(commas)
          IN <<SubSeq(s, 1, k - 1)>> \o Split(SubSeq(s, k + 1, Len(s)))

\* [...new Set(seq)]: a Set keeps insertion order, so the first of equal
\* elements stays where it was
RECURSIVE Unique(_)
Unique(seq) ==
  IF seq = <<>> THEN <<>>
  ELSE LET front == Unique(SubSeq(seq, 1, Len(seq) - 1))
           last == seq[Len(seq)]
       IN IF \E i \in 1..Len(front) : front[i] = last
          THEN front ELSE Append(front, last)

UpperCase == <<"A","B","C","D","E","F","G","H","I","J","K","L","M",
               "N","O","P","Q","R","S","T","U","V","W","X","Y","Z">>
LowerCase == <<"a","b","c","d","e","f","g","h","i","j","k","l","m",
               "n","o","p","q","r","s","t","u","v","w","x","y","z">>

\* String.prototype.toLowerCase
ToLowerCase(s) ==
  [i \in 1..Len(s) |->
     IF \E k \in 1..26 : UpperCase[k] = s[i]
     THEN LowerCase[CHOOSE k \in 1..26 : UpperCase[k] = s[i]]
     ELSE s[i]]

----------------------------------------------------------------------------
(* Regular expressions.  Each pattern below is greedy and needs no         *)
(* backtracking: after a maximal run of a character class the next piece   *)
(* of the pattern starts with a character outside the class.  match()      *)
(* returns the leftmost match.                                             *)

\* the literal lit stands in s at position i
HasAt(s, i, lit) ==
  /\ i >= 1
  /\ i + Len(lit) - 1 <= Len(s)
  /\ SubSeq(s, i, i + Len(lit) - 1) = lit

\* the position after the longest run of characters of class C that starts at i
RunEnd(s, i, C) ==
  LET stops == {j \in i..Len(s) : s[j] \notin C}
  IN IF stops = {} THEN Len(s) + 1 ELSE SetMin(stops)

\* the leftmost position of Starts, an empty set meaning no match
Leftmost(Starts) == IF Starts = {} THEN 0 ELSE SetMin(Starts)

\* the literal words of the patterns
S_ratings == <<"r","a","t","i","n","g","s">>
S_reviews == <<"r","e","v","i","e","w","s">>
S_pages == <<"p","a","g","e","s">>
S_FirstPublished == <<"F","i","r","s","t"," ","p","u","b","l","i","s","h","e","d">>
S_published == <<"p","u","b","l","i","s","h","e","d">>
S_ISBN10 == <<"I","S","B","N","1","0",":">>
S_avgRating == <<"a","v","g"," ","r","a","t","i","n","g">>
S_show == <<"/","s","h","o","w","/">>
EmDash == "U+2014"

\* the position after (?:,\d+)* read from e
RECURSIVE GroupsEnd(_, _)
GroupsEnd(s, e) ==
  IF e <= Len(s) /\ s[e] = "," /\ RunEnd(s, e + 1, Digits) > e + 1
  THEN GroupsEnd(s, RunEnd(s, e + 1, Digits))
  ELSE e

\* the position after \d+(?:,\d+)* read from i; i when no digit stands there
CountEnd(s, i) ==
  IF RunEnd(s, i, Digits) > i THEN GroupsEnd(s, RunEnd(s, i, Digits)) ELSE i

\* s.match(/(\d+(?:,\d+)*)\s+<word>/): group 1, or Null without a match
MatchCount(s, word) ==
  LET ok(i) == LET g == CountEnd(s, i)
                   w == RunEnd(s, g, WhiteSpace)
               IN g > i /\ w > g /\ HasAt(s, w, word)
      at == Leftmost({i \in 1..Len(s) : ok(i)})
  IN IF at = 0 THEN Null ELSE SubSeq(s, at, CountEnd(s, at) - 1)

\* s.match(/(\d+)\s*pages/)
MatchPages(s) ==
  LET ok(i) == LET d == RunEnd(s, i, Digits)
               IN d > i /\ HasAt(s, RunEnd(s, d, WhiteSpace), S_pages)
      at == Leftmost({i \in 1..Len(s) : ok(i)})
  IN IF at = 0 THEN Null ELSE SubSeq(s, at, RunEnd(s, at, Digits) - 1)

\* where (.+) starts after "First published" at i: \s+ gives back whitespace
\* only when nothing else is left for (.+), and . matches no line break
PublishedFrom(s, i) ==
  LET w == RunEnd(s, i + Len(S_FirstPublished), WhiteSpace)
      from == {p \in (i + Len(S_FirstPublished) + 1)..w : p <= Len(s) /\ s[p] # "\n"}
  IN IF from = {} THEN 0 ELSE SetMax(from)

\* s.match(/First published\s+(.+)/)
MatchFirstPublished(s) ==
  LET ok(i) == HasAt(s, i, S_FirstPublished) /\ PublishedFrom(s, i) > 0
      at == Leftmost({i \in 1..Len(s) : ok(i)})
      p == PublishedFrom(s, at)
      breaks == {j \in p..Len(s) : s[j] = "\n"}
  IN IF at = 0 THEN Null
     ELSE SubSeq(s, p, IF breaks = {} THEN Len(s) ELSE SetMin(breaks) - 1)

Isbn13Length == 13
Isbn10Length == 10

\* s.match(/^(\d{13})/)
MatchIsbn13(s) ==
  IF RunEnd(s, 1, Digits) > Isbn13Length THEN SubSeq(s, 1, Isbn13Length) ELSE Null

\* s.match(/ISBN10:\s*(\d{10})/)
MatchIsbn10(s) ==
  LET ok(i) == /\ HasAt(s, i, S_ISBN10)
               /\ LET w == RunEnd(s, i + Len(S_ISBN10), WhiteSpace)
                  IN RunEnd(s, w, Digits) >= w + Isbn10Length
      at == Leftmost({i \in 1..Len(s) : ok(i)})
      w == RunEnd(s, at + Len(S_ISBN10), WhiteSpace)
  IN IF at = 0 THEN Null ELSE SubSeq(s, w, w + Isbn10Length - 1)

YearLength == 4

\* s.match(/published\s+(\d{4})/)
MatchPublishedYear(s) ==
  LET ok(i) == /\ HasAt(s, i, S_published)
               /\ LET w == RunEnd(s, i + Len(S_published), WhiteSpace)
                  IN w > i + Len(S_published) /\ RunEnd(s, w, Digits) >= w + YearLength
      at == Leftmost({i \in 1..Len(s) : ok(i)})
      w == RunEnd(s, at + Len(S_published), WhiteSpace)
  IN IF at = 0 THEN Null ELSE SubSeq(s, w, w + YearLength - 1)

\* s.match(/([\d.]+)\s+avg rating/)
MatchAvgRating(s) ==
  LET ok(i) == LET d == RunEnd(s, i, Digits \cup {"."})
                   w == RunEnd(s, d, WhiteSpace)
               IN d > i /\ w > d /\ HasAt(s, w, S_avgRating)
      at == Leftmost({i \in 1..Len(s) : ok(i)})
  IN IF at = 0 THEN Null ELSE SubSeq(s, at, RunEnd(s, at, Digits \cup {"."}) - 1)

\* s.match(/<em dash>\s+([\d,]+)\s+ratings/)
MatchDashRatings(s) ==
  LET ok(i) == /\ s[i] = EmDash
               /\ LET w == RunEnd(s, i + 1, WhiteSpace)
                      d == RunEnd(s, w, Digits \cup {","})
                      v == RunEnd(s, d, WhiteSpace)
                  IN w > i + 1 /\ d > w /\ v > d /\ HasAt(s, v, S_ratings)
      at == Leftmost({i \in 1..Len(s) : ok(i)})
      w == RunEnd(s, at + 1, WhiteSpace)
  IN IF at = 0 THEN Null ELSE SubSeq(s, w, RunEnd(s, w, Digits \cup {","}) - 1)

\* s.match(/\/show\/(\d+)/)?.[1]
MatchShowId(s) ==
  LET ok(i) == HasAt(s, i, S_show) /\ RunEnd(s, i + Len(S_show), Digits) > i + Len(S_show)
      at == Leftmost({i \in 1..Len(s) : ok(i)})
  IN IF at = 0 THEN Null
     ELSE SubSeq(s, at + Len(S_show), RunEnd(s, at + Len(S_show), Digits) - 1)


----------------------------------------------------------------------------
(* lookup: the detail page as the selections parseBookDetails queries      *)
(*   titleSection     $('.BookPageTitleSection__title'): each block the    *)
(*                    sequence of its text-bearing descendants, tagged     *)
(*                    "h1" (h1[data-testid="bookTitle"]), "series"         *)
(*                    (h3.Text__italic a) or "text" (anything else)        *)
(*   contributors     $('.ContributorLinksList .ContributorLink__name')    *)
(*   rating, meta     $('.RatingStatistics__rating'), ..__meta             *)
(*   genres           $('.BookPageMetadataSection__genres                  *)
(*                      .Button__labelItem')                               *)
(*   pagesFormat, publicationInfo   $('p[data-testid=...]')                *)
(*   description      $('.BookPageMetadataSection__description'), each     *)
(*                    with its .TruncatedContent__text descendants         *)
(*   cover            $('.BookCover__image img.ResponsiveImage'), each     *)
(*                    with its src attribute or Undefined                  *)
(*   descList         $('.DescListItem'): dt and dd texts, whether the     *)
(*                    item lies in .WorkDetails, and the texts of its      *)
(*                    .TruncatedContent__text descendants                  *)

S_Setting == <<"S","e","t","t","i","n","g">>
S_format == <<"f","o","r","m","a","t">>
S_isbn == <<"i","s","b","n">>
S_asin == <<"a","s","i","n">>
S_language == <<"l","a","n","g","u","a","g","e">>
S_showAll == <<".",".",".","s","h","o","w"," ","a","l","l">>
S_more == <<".",".",".","m","o","r","e">>

\* lookup.js 126-149
initializeBookDetailsObject ==
  [title |-> Null, series |-> Null, authors |-> <<>>, rating |-> Null,
   numberOfRatings |-> Null, numberOfReviews |-> Null, genres |-> <<>>,
   settings |-> <<>>, numberOfPages |-> Null, firstPublished |-> Null,
   description |-> Null, coverImage |-> Null,
   editionDetails |-> [format |-> Null, published |-> Null, isbn13 |-> Null,
                       isbn10 |-> Null, asin |-> Null, language |-> Null]]

\* the nodes of a sequence of blocks, in document order
RECURSIVE Flatten(_)
Flatten(blocks) == IF blocks = <<>> THEN <<>> ELSE Head(blocks) \o Flatten(Tail(blocks))

\* .text() of the nodes with one of the tags
TaggedText(nodes, tags) ==
  LET picked == SelectSeq(nodes, LAMBDA n : n.tag \in tags)
  IN Text([i \in 1..Len(picked) |-> picked[i].text])

\* parseTitleAndSeries taking the whole block as the title in both branches
parseTitleAndSeriesWholeBlock(doc, bd) ==
  LET titleSection == Flatten(doc.titleSection)
      seriesElement == SelectSeq(titleSection, LAMBDA n : n.tag = "series")
      whole == Trim(TaggedText(titleSection, {"h1", "series", "text"}))
  IN IF Len(seriesElement) # 0
     THEN [bd EXCEPT !.series = Trim(TaggedText(titleSection, {"series"})), !.title = whole]
     ELSE [bd EXCEPT !.title = whole]

parseTitleAndSeries(doc, bd) ==
  LET titleSection == Flatten(doc.titleSection)
      seriesElement == SelectSeq(titleSection, LAMBDA n : n.tag = "series")
  IN IF Len(seriesElement) # 0
     THEN [bd EXCEPT !.series = Trim(TaggedText(titleSection, {"series"})),
                     !.title = Trim(TaggedText(titleSection, {"h1"}))]
     ELSE [bd EXCEPT !.title = Trim(TaggedText(titleSection, {"h1", "series", "text"}))]

parseAuthors(doc, bd) ==
  [bd EXCEPT !.authors = @ \o [i \in 1..Len(doc.contributors) |->
                                 Trim(CollapseWhitespace(doc.contributors[i]))]]

\* ratingsMatch ? ratingsMatch[1].replace(/,/g, '') : null
CountOrNull(match) == IF match # Null THEN RemoveCommas(match) ELSE Null

parseRatings(doc, bd) ==
  LET ratingsAndReviews == Trim(Text(First(doc.meta)))
  IN [bd EXCEPT !.rating = OrElse(Trim(Text(First(doc.rating))), Null),
                !.numberOfRatings = CountOrNull(MatchCount(ratingsAndReviews, S_ratings)),
                !.numberOfReviews = CountOrNull(MatchCount(ratingsAndReviews, S_reviews))]

\* the test of the if in parseGenres
IsGenre(genreName) == genreName # S_showAll

parseGenres(doc, bd) ==
  LET names == [i \in 1..Len(doc.genres) |-> Trim(doc.genres[i])]
  IN [bd EXCEPT !.genres = @ \o SelectSeq(names, IsGenre)]

parseBasicDetails(doc, bd) ==
  LET pagesMatch == MatchPages(Trim(Text(doc.pagesFormat)))
      publishedMatch == MatchFirstPublished(Trim(Text(doc.publicationInfo)))
  IN [bd EXCEPT !.numberOfPages = IF pagesMatch # Null THEN pagesMatch ELSE @,
                !.firstPublished = IF publishedMatch # Null THEN Trim(publishedMatch) ELSE @]

\* the .TruncatedContent__text descendants of the nodes of a selection
RECURSIVE Truncated(_)
Truncated(sel) == IF sel = <<>> THEN <<>> ELSE Head(sel).truncated \o Truncated(Tail(sel))

parseDescription(doc, bd) ==
  LET descriptionDiv == doc.description
  IN IF Len(descriptionDiv) # 0
     THEN [bd EXCEPT !.description = OrElse(Trim(Text(First(Truncated(descriptionDiv)))), Null)]
     ELSE bd

\* .attr(name) of a selection: the first node's attribute, undefined without a node
Attr(sel, name) == IF sel = <<>> THEN Undefined ELSE Head(sel)[name]

parseCoverImage(doc, bd) ==
  [bd EXCEPT !.coverImage = OrElse(Attr(doc.cover, "src"), Null)]

\* EditionItem reading the ISBN-10 only from a value that starts with an ISBN-13
EditionItemIsbn13First(ed, el) ==
  LET label == ToLowerCase(Trim(el.dt))
      value == Trim(el.dd)
      isbn13Match == MatchIsbn13(value)
      isbn10Match == MatchIsbn10(value)
  IN CASE label = S_format -> [ed EXCEPT !.format = value]
       [] label = S_published -> [ed EXCEPT !.published = value]
       [] label = S_isbn ->
            IF isbn13Match # Null
            THEN [ed EXCEPT !.isbn13 = isbn13Match,
                            !.isbn10 = IF isbn10Match # Null THEN isbn10Match ELSE @]
            ELSE ed
       [] label = S_asin -> [ed EXCEPT !.asin = Trim(value)]
       [] label = S_language -> [ed EXCEPT !.language = value]
       [] OTHER -> ed

\* the switch of parseEditionDetails on one .DescListItem
EditionItem(ed, el) ==
  LET label == ToLowerCase(Trim(el.dt))
      value == Trim(el.dd)
      isbn13Match == MatchIsbn13(value)
      isbn10Match == MatchIsbn10(value)
  IN CASE label = S_format -> [ed EXCEPT !.format = value]
       [] label = S_published -> [ed EXCEPT !.published = value]
       [] label = S_isbn ->
            [ed EXCEPT !.isbn13 = IF isbn13Match # Null THEN isbn13Match ELSE @,
                       !.isbn10 = IF isbn10Match # Null THEN isbn10Match ELSE @]
       [] label = S_asin -> [ed EXCEPT !.asin = Trim(value)]
       [] label = S_language -> [ed EXCEPT !.language = value]
       [] OTHER -> ed

\* $('.DescListItem').each(...) from item i on
RECURSIVE EachDescListItem(_, _)
EachDescListItem(items, ed) ==
  IF items = <<>> THEN ed ELSE EachDescListItem(Tail(items), EditionItem(ed, Head(items)))

parseEditionDetails(doc, bd) ==
  [bd EXCEPT !.editionDetails = EachDescListItem(doc.descList, @)]

\* setting => setting.replace(/\([^)]*\)/g, '').replace(/\s+/g, ' ').trim()
CleanSetting(setting) == Trim(CollapseWhitespace(StripParentheticals(setting)))

\* SettingsOf without the Set: settingsText.split(',').map(...)
SettingsOfKeepingDuplicates(settingsText) ==
  LET pieces == Split(settingsText)
  IN [i \in 1..Len(pieces) |-> CleanSetting(pieces[i])]

\* [...new Set(settingsText.split(',').map(...))]
SettingsOf(settingsText) ==
  LET pieces == Split(settingsText)
  IN Unique([i \in 1..Len(pieces) |-> CleanSetting(pieces[i])])

\* $('.WorkDetails .DescListItem').filter(... dt text === 'Setting')
SettingsContainer(doc) ==
  SelectSeq(doc.descList, LAMBDA el : el.work /\ Trim(el.dt) = S_Setting)

parseSettings(doc, bd) ==
  LET settingsContainer == SettingsContainer(doc)
  IN IF Len(settingsContainer) # 0
     THEN [bd EXCEPT !.settings = SettingsOf(Trim(Text(Truncated(settingsContainer))))]
     ELSE bd

\* lookup.js 105-120
parseBookDetails(doc) ==
  parseSettings(doc,
   parseEditionDetails(doc,
    parseCoverImage(doc,
     parseDescription(doc,
      parseBasicDetails(doc,
       parseGenres(doc,
        parseRatings(doc,
         parseAuthors(doc,
          parseTitleAndSeries(doc, initializeBookDetailsObject)))))))))

----------------------------------------------------------------------------
(* lookup: the documents the run is checked on *)

\* every sequence over S of length at most n
SeqsUpTo(S, n) == UNION {[1..k -> S] : k \in 0..n}

MaxTitleNodes == 3
MaxGenres == 3
MaxSettingLen == 4
MaxCountLen == 3
MaxItems == 2
IsbnSlack == 1

T_HellHouse == <<"H","e","l","l"," ","H","o","u","s","e">>
T_Saga == <<"S","a","g","a"," ","#","1">>
T_isbnValue == <<"9","7","8","0","7","2","7","8","6","0","9","9","6","I","S","B","N","1","0",":"," ","0","7","2","7","8","6","0","9","9","2">>
T_London == <<"L","o","n","d","o","n"," ","(","E","n","g","l","a","n","d",")",","," ","L","o","n","d","o","n"," ","(","E","n","g","l","a","n","d",")",","," ","P","a","r","i","s">>

Item(dt, dd) == [dt |-> dt, dd |-> dd, work |-> FALSE, truncated |-> <<>>]
WorkItem(dt, text) == [dt |-> dt, dd |-> text, work |-> TRUE, truncated |-> <<text>>]

\* a detail page with every section, after the README's example
FullDoc ==
  [titleSection |-> << <<[tag |-> "series", text |-> T_Saga],
                         [tag |-> "h1", text |-> T_HellHouse]>> >>,
   contributors |-> <<<<"R","i","c","h","a","r","d"," "," ","M","a","t","h","e","s","o","n">>>>,
   rating |-> <<<<"3",".","7","3">>>>,
   meta |-> <<<<"5","5",",","0","6","1"," ","r","a","t","i","n","g","s","U+00B7","4",",","6","4","0"," ","r","e","v","i","e","w","s">>>>,
   genres |-> <<<<"H","o","r","r","o","r">>, <<"F","i","c","t","i","o","n">>>>,
   pagesFormat |-> <<<<"3","0","1"," ","p","a","g","e","s",","," ","H","a","r","d","c","o","v","e","r">>>>,
   publicationInfo |-> <<<<"F","i","r","s","t"," ","p","u","b","l","i","s","h","e","d"," ","J","a","n","u","a","r","y"," ","1",","," ","1","9","7","1">>>>,
   description |-> <<[truncated |-> <<<<"A"," ","h","a","u","n","t","e","d"," ","h","o","u","s","e",".">>>>]>>,
   cover |-> <<[src |-> <<"h","t","t","p","s",":","/","/","i",".","g","r","/","1",".","j","p","g">>]>>,
   descList |-> <<Item(<<"F","o","r","m","a","t">>, <<"3","0","1"," ","p","a","g","e","s",","," ","H","a","r","d","c","o","v","e","r">>),
                  Item(<<"P","u","b","l","i","s","h","e","d">>, <<"J","u","l","y"," ","1",","," ","2","0","0","4"," ","b","y"," ","S","e","v","e","r","n"," ","H","o","u","s","e">>),
                  Item(<<"I","S","B","N">>, T_isbnValue),
                  Item(<<"A","S","I","N">>, <<"0","7","2","7","8","6","0","9","9","2">>),
                  Item(<<"L","a","n","g","u","a","g","e">>, <<"E","n","g","l","i","s","h">>),
                  WorkItem(S_Setting, T_London)>>]

Sections == {"title", "contributors", "rating", "meta", "genres", "pages",
             "publication", "description", "cover", "details", "setting"}

\* the section of a .DescListItem: the Setting item, or the details list
ItemSection(el) == IF el.work THEN "setting" ELSE "details"

\* doc with the sections of m taken from other
Replace(doc, m, other) ==
  [titleSection |-> IF "title" \in m THEN other.titleSection ELSE doc.titleSection,
   contributors |-> IF "contributors" \in m THEN other.contributors ELSE doc.contributors,
   rating |-> IF "rating" \in m THEN other.rating ELSE doc.rating,
   meta |-> IF "meta" \in m THEN other.meta ELSE doc.meta,
   genres |-> IF "genres" \in m THEN other.genres ELSE doc.genres,
   pagesFormat |-> IF "pages" \in m THEN other.pagesFormat ELSE doc.pagesFormat,
   publicationInfo |-> IF "publication" \in m THEN other.publicationInfo ELSE doc.publicationInfo,
   description |-> IF "description" \in m THEN other.description ELSE doc.description,
   cover |-> IF "cover" \in m THEN other.cover ELSE doc.cover,
   descList |-> SelectSeq(doc.descList, LAMBDA el : ItemSection(el) \notin m)
                \o SelectSeq(other.descList, LAMBDA el : ItemSection(el) \in m)]

\* a page with no section at all
EmptyDoc ==
  [titleSection |-> <<>>, contributors |-> <<>>, rating |-> <<>>, meta |-> <<>>,
   genres |-> <<>>, pagesFormat |-> <<>>, publicationInfo |-> <<>>,
   description |-> <<>>, cover |-> <<>>, descList |-> <<>>]

\* a page whose every section is there and holds no text
BlankDoc ==
  [titleSection |-> << <<[tag |-> "series", text |-> <<>>],
                         [tag |-> "h1", text |-> <<" ">>]>> >>,
   contributors |-> << <<>> >>,
   rating |-> << <<" ">> >>,
   meta |-> << <<>> >>,
   genres |-> << <<>> >>,
   pagesFormat |-> << <<>> >>,
   publicationInfo |-> << <<"\n">> >>,
   description |-> <<[truncated |-> << <<>> >>]>>,
   cover |-> <<[src |-> Undefined]>>,
   descList |-> <<Item(<<"F","o","r","m","a","t">>, <<>>), Item(<<"P","u","b","l","i","s","h","e","d">>, <<" ">>),
                  Item(<<"I","S","B","N">>, <<>>), Item(<<"A","S","I","N">>, <<>>), Item(<<"L","a","n","g","u","a","g","e">>, <<>>),
                  WorkItem(S_Setting, <<>>)>>]

Without(doc, m) == Replace(doc, m, EmptyDoc)

MissingDocs == {Without(FullDoc, m) : m \in SUBSET Sections}

BlankDocs == {BlankDoc} \cup {Replace(FullDoc, {sec}, BlankDoc) : sec \in Sections}

TitleNodes ==
  {[tag |-> "h1", text |-> T_HellHouse], [tag |-> "h1", text |-> <<>>],
   [tag |-> "series", text |-> T_Saga], [tag |-> "series", text |-> <<>>],
   [tag |-> "text", text |-> <<" ","x","\n">>]}

TitleDocs ==
  {[FullDoc EXCEPT !.titleSection = <<block>>] : block \in SeqsUpTo(TitleNodes, MaxTitleNodes)}

GenreChips == {<<"H","o","r","r","o","r">>, <<" ","F","i","c","t","i","o","n","\n">>, S_showAll, S_more, <<" ">> \o S_more, <<>>}

GenreDocs == {[FullDoc EXCEPT !.genres = chips] : chips \in SeqsUpTo(GenreChips, MaxGenres)}

SettingTexts == SeqsUpTo({"a", " ", ",", "(", ")"}, MaxSettingLen) \cup {T_London}

SettingItems(text) ==
  {<<WorkItem(S_Setting, text)>>,
   <<WorkItem(<<"C","h","a","r","a","c","t","e","r","s">>, <<"F","i","s","c","h","e","r">>), WorkItem(<<" ">> \o S_Setting, text)>>}

SettingDocs ==
  {[FullDoc EXCEPT !.descList = items] :
     items \in UNION {SettingItems(text) : text \in SettingTexts}}
  \cup {[FullDoc EXCEPT !.descList = <<Item(S_Setting, T_London)>>],
        [FullDoc EXCEPT !.descList = <<WorkItem(<<"s","e","t","t","i","n","g">>, T_London)>>],
        [FullDoc EXCEPT !.descList = <<WorkItem(S_Setting, <<"M","a","i","n","e">>), WorkItem(S_Setting, <<","," ","M","a","i","n","e">>)>>]}

T_isbn13Digits == <<"9","7","8","0","7","2","7","8","6","0","9","9","6","1","2","3","4">>
T_isbn10Digits == <<"0","7","2","7","8","6","0","9","9","2","1","2","3","4">>

\* the texts of a dd under the label ISBN: a run of digits about as long as an
\* ISBN-13, then a tag and a run about as long as an ISBN-10, each or none
IsbnLengths(n) == {0} \cup ((n - IsbnSlack)..(n + IsbnSlack))

IsbnValues ==
  {SubSeq(T_isbn13Digits, 1, lead) \o gap \o tag \o space \o SubSeq(T_isbn10Digits, 1, tail) :
     lead \in IsbnLengths(Isbn13Length), gap \in {<<>>, <<" ">>},
     tag \in {<<>>, S_ISBN10, <<"I","S","B","N","1","0">>, <<"I","S","B","N","1","0",":","1"," ","I","S","B","N","1","0",":">>},
     space \in {<<>>, <<" ">>, <<"\n", " ">>},
     tail \in IsbnLengths(Isbn10Length)}

IsbnLabels == {<<"I","S","B","N">>, <<"i","s","b","n">>, <<" ","I","s","b","n","\n">>}

IsbnItems ==
  {Item(<<"I","S","B","N">>, T_isbnValue), Item(<<"i","s","b","n">>, SubSeq(T_isbn13Digits, 1, Isbn13Length)),
   Item(<<"I","S","B","N">>, <<"I","S","B","N","1","0",":"," ","0","7","2","7","8","6","0","9","9","2">>), Item(<<"I","S","B","N">>, <<"n","/","a">>),
   Item(<<"I","S","B","N">>, <<"9","7","8","0","0","0","0","0","0","0","0","0","2","I","S","B","N","1","0",":","0","0","0","0","0","0","0","0","0","2">>), Item(<<"I","S","B","N","1","3">>, T_isbnValue),
   Item(<<"A","S","I","N">>, <<" ","B","0","0","0"," ">>), Item(<<"F","o","r","m","a","t">>, <<>>)}

IsbnDocs ==
  {[FullDoc EXCEPT !.descList = <<Item(label, value)>>] :
     label \in IsbnLabels, value \in IsbnValues}
  \cup {[FullDoc EXCEPT !.descList = items] : items \in SeqsUpTo(IsbnItems, MaxItems)}

CountTexts == SeqsUpTo({"5", ",", " "}, MaxCountLen)

MetaDocs ==
  {[FullDoc EXCEPT !.meta = <<count \o word>>] :
     count \in CountTexts,
     word \in {S_ratings, <<" ">> \o S_ratings, <<" ","r","a","t","i","n","g","s"," ","7",",","5"," ","r","e","v","i","e","w","s">>, <<" ","r","a","t","i","n","g">>}}

DetailFamilies ==
  {MissingDocs, BlankDocs, TitleDocs, GenreDocs, SettingDocs, IsbnDocs, MetaDocs}

----------------------------------------------------------------------------
(* search: the results page as the selections parseSearchResults queries   *)
(*   rows             $('tr[itemtype="http://schema.org/Book"]'), each row *)
(*     bookTitle        $el.find('.bookTitle'): the href attribute or      *)
(*                      Undefined, and the span[itemprop="name"] texts     *)
(*     authors          $el.find('.authorName__container'), each with its  *)
(*                      span[itemprop="name"] texts                        *)
(*     greyText         $el.find('.greyText.smallText.uitext')             *)
(*     minirating       $el.find('.minirating')                            *)

SiteRoot == <<"h","t","t","p","s",":","/","/","w","w","w",".","g","o","o","d","r","e","a","d","s",".","c","o","m">>
SearchBaseUrl == <<"h","t","t","p","s",":","/","/","w","w","w",".","g","o","o","d","r","e","a","d","s",".","c","o","m","/","s","e","a","r","c","h">>
S_books == <<"b","o","o","k","s">>
S_all == <<"a","l","l">>

\* the span[itemprop="name"] descendants of the nodes of a selection
RECURSIVE Names(_)
Names(sel) == IF sel = <<>> THEN <<>> ELSE Head(sel).names \o Names(Tail(sel))

initializeBookObject(el) ==
  LET detailsUrl == SiteRoot \o StringOf(Attr(el.bookTitle, "href"))
  IN [title |-> OrElse(Trim(Text(Names(el.bookTitle))), Null),
      authors |-> <<>>,
      detailsUrl |-> OrElse(detailsUrl, Null),
      goodreadsId |-> OrElse(MatchShowId(detailsUrl), Null),
      publishedYear |-> Null,
      averageRating |-> Null,
      numberOfRatings |-> Null]

parseAuthorsRow(el, book) ==
  [book EXCEPT !.authors = @ \o [i \in 1..Len(el.authors) |->
                                   Trim(Text(el.authors[i].names))]]

parsePublishedDate(el, book) ==
  [book EXCEPT !.publishedYear = MatchPublishedYear(Text(el.greyText))]

parseRatingsRow(el, book) ==
  LET ratingText == Text(el.minirating)
  IN [book EXCEPT !.averageRating = MatchAvgRating(ratingText),
                  !.numberOfRatings = CountOrNull(MatchDashRatings(ratingText))]

parseBookData(el) ==
  parseRatingsRow(el, parsePublishedDate(el, parseAuthorsRow(el, initializeBookObject(el))))

\* results.unshift(bookData) in the place of push
PushFront(list, bookData) == <<bookData>> \o list

\* results.push(bookData)
Push(list, bookData) == Append(list, bookData)

\* process.argv[k], k >= 2
Arg(args, k) == IF k - 1 <= Len(args) THEN args[k - 1] ELSE Undefined

Query(args) == Arg(args, 2)
SearchType(args) == OrElse(Arg(args, 3), S_books)
SearchField(args) == OrElse(Arg(args, 4), S_all)

\* no URL built yet
NoUrl == [base |-> <<>>, params |-> <<>>]

\* the URL as its base and the name-value pairs of its query, in the order
\* URLSearchParams serialises them
buildSearchUrl(query, searchType, searchField) ==
  LET searchParams == <<[name |-> "utf8", value |-> <<"U+2713">>],
                        [name |-> "q", value |-> query],
                        [name |-> "search_type", value |-> searchType]>>
  IN [base |-> SearchBaseUrl,
      params |-> IF searchField # S_all
                 THEN Append(searchParams, [name |-> "search[field]", value |-> searchField])
                 ELSE searchParams]

----------------------------------------------------------------------------
(* search: the command lines and the documents the run is checked on *)

MaxRows == 2

T_Gatsby == <<"T","h","e"," ","G","r","e","a","t"," ","G","a","t","s","b","y">>
T_title == <<"t","i","t","l","e">>
T_author == <<"a","u","t","h","o","r">>

SearchArgvs ==
  {<<>>, << <<>>, T_title >>, <<T_Gatsby>>, <<T_Gatsby, T_title>>,
   <<T_Gatsby, T_author>>, <<T_Gatsby, S_all>>, <<T_Gatsby, S_books, T_title>>,
   <<T_Gatsby, S_books, S_all>>}

\* the README's first row
HellHouseRow ==
  [bookTitle |-> <<[href |-> <<"/","b","o","o","k","/","s","h","o","w","/","3","3","5","4","7",".","H","e","l","l","_","H","o","u","s","e","?","r","a","n","k","=","1">>,
                    names |-> <<T_HellHouse>>]>>,
   authors |-> <<[names |-> <<<<"R","i","c","h","a","r","d"," ","M","a","t","h","e","s","o","n">>>>]>>,
   greyText |-> <<<<" ","p","u","b","l","i","s","h","e","d"," ","1","9","7","1"," ">>>>,
   minirating |-> <<<<" ","3",".","7","3"," ","a","v","g"," ","r","a","t","i","n","g"," ","U+2014"," ","5","5",",","0","6","1"," ","r","a","t","i","n","g","s">>>>]

\* a row with no node the code looks for
EmptyRow == [bookTitle |-> <<>>, authors |-> <<>>, greyText |-> <<>>, minirating |-> <<>>]

SearchRows ==
  {HellHouseRow, EmptyRow,
   [HellHouseRow EXCEPT !.bookTitle = <<[href |-> Undefined, names |-> <<T_HellHouse>>]>>],
   [HellHouseRow EXCEPT !.bookTitle = <<[href |-> <<"/","b","o","o","k","/","s","h","o","w","/","h","e","l","l","-","h","o","u","s","e">>, names |-> << <<" ">> >>]>>],
   [HellHouseRow EXCEPT !.bookTitle = <<[href |-> <<"/","a","u","t","h","o","r","/","s","h","o","w","/","1","2">>, names |-> <<>>]>>],
   [HellHouseRow EXCEPT !.authors = <<[names |-> <<<<"B","o","o","k","R","a","g","s">>>>], [names |-> <<>>]>>,
                        !.greyText = <<<<"p","u","b","l","i","s","h","e","d"," ","2","0","1">>>>,
                        !.minirating = <<<<"4",".","4","0"," ","a","v","g"," ","r","a","t","i","n","g"," ","U+2014"," ","5"," ","r","a","t","i","n","g","s">>>>],
   [HellHouseRow EXCEPT !.greyText = <<>>, !.minirating = <<<<"r","e","a","l","l","y"," ","l","i","k","e","d"," ","i","t">>>>]}

MiniTexts ==
  {avg \o dash \o count \o word :
     avg \in {<<>>, <<"3",".","7","3"," ","a","v","g"," ","r","a","t","i","n","g"," ">>},
     dash \in {<<>>, <<EmDash>>, <<EmDash, " ">>},
     count \in CountTexts,
     word \in {S_ratings, <<" ">> \o S_ratings}}

SearchDocs ==
  {[rows |-> rows] : rows \in SeqsUpTo(SearchRows, MaxRows)}
  \cup {[rows |-> <<[HellHouseRow EXCEPT !.minirating = <<text>>]>>] : text \in MiniTexts}

----------------------------------------------------------------------------
(* lookup: the run *)

\* console.log and console.error write a line of text; JSON.stringify gives
\* the one text that parses back to its argument
Line(parts) == [json |-> FALSE, value |-> parts]
Stringify(value) == [json |-> TRUE, value |-> value]

\* before main: nothing launched, nothing written, no call made
InitRuntime ==
  /\ browser = [launched |-> 0, closed |-> 0]
  /\ stdout = <<>>
  /\ stderr = <<>>
  /\ exitCode = 0
  /\ error = "none"
  /\ failures = {}
  /\ calls = <<>>

InitLookup ==
  /\ cmd = "lookup"
  /\ pc = "content"
  /\ argv = <<<<"3","3","5","4","7">>>>
  /\ searchUrl = NoUrl
  /\ html = EmptyDoc
  /\ bookDetails = initializeBookDetailsObject
  /\ index = 0
  /\ results = <<>>
  /\ InitRuntime

\* const html = await page.content()
LookupContent ==
  /\ cmd = "lookup" /\ pc = "content"
  /\ \E docs \in DetailFamilies : html' \in docs
  /\ pc' = "parseBookDetails"
  /\ UNCHANGED <<cmd, argv, searchUrl, bookDetails, index, results>>
  /\ UNCHANGED runtime

\* parseBookDetails going on with the record of the call before
ParseBookDetailsKeepingRecord ==
  /\ cmd = "lookup" /\ pc = "parseBookDetails"
  /\ pc' = "parseTitleAndSeries"
  /\ UNCHANGED <<cmd, argv, searchUrl, html, bookDetails, index, results>>
  /\ UNCHANGED runtime

\* const bookDetails = initializeBookDetailsObject()
ParseBookDetails ==
  /\ cmd = "lookup" /\ pc = "parseBookDetails"
  /\ bookDetails' = initializeBookDetailsObject
  /\ pc' = "parseTitleAndSeries"
  /\ UNCHANGED <<cmd, argv, searchUrl, html, index, results>>
  /\ UNCHANGED runtime

\* one extractor call of parseBookDetails
Extract(at, extractor(_, _), next) ==
  /\ cmd = "lookup" /\ pc = at
  /\ bookDetails' = extractor(html, bookDetails)
  /\ pc' = next
  /\ UNCHANGED <<cmd, argv, searchUrl, html, index, results>>
  /\ UNCHANGED runtime

ParseTitleAndSeries == Extract("parseTitleAndSeries", parseTitleAndSeries, "parseAuthors")
ParseAuthors == Extract("parseAuthors", parseAuthors, "parseRatings")
ParseRatings == Extract("parseRatings", parseRatings, "parseGenres")
ParseGenres == Extract("parseGenres", parseGenres, "parseBasicDetails")
ParseBasicDetails == Extract("parseBasicDetails", parseBasicDetails, "parseDescription")
ParseDescription == Extract("parseDescription", parseDescription, "parseCoverImage")
ParseCoverImage == Extract("parseCoverImage", parseCoverImage, "parseEditionDetails")
ParseEditionDetails == Extract("parseEditionDetails", parseEditionDetails, "parseSettings")
ParseSettings == Extract("parseSettings", parseSettings, "return")

NextLookup ==
  \/ LookupContent
  \/ ParseBookDetails
  \/ ParseTitleAndSeries
  \/ ParseAuthors
  \/ ParseRatings
  \/ ParseGenres
  \/ ParseBasicDetails
  \/ ParseDescription
  \/ ParseCoverImage
  \/ ParseEditionDetails
  \/ ParseSettings

SpecLookup == InitLookup /\ [][NextLookup]_vars

----------------------------------------------------------------------------
(* search: the run *)

InitSearch ==
  /\ cmd = "search"
  /\ pc = "main"
  /\ argv \in SearchArgvs
  /\ searchUrl = NoUrl
  /\ html = [rows |-> <<>>]
  /\ bookDetails = initializeBookDetailsObject
  /\ index = 0
  /\ results = <<>>
  /\ InitRuntime

\* if (!query) { console.error(...); process.exit(1) }
SearchUsage ==
  /\ cmd = "search" /\ pc = "main"
  /\ OrElse(Query(argv), Null) = Null
  /\ stderr' = Append(stderr, Line("Please provide a search query."))
  /\ exitCode' = 1
  /\ pc' = "exit1"
  /\ UNCHANGED <<cmd, argv, searchUrl, html, bookDetails, index, results>>
  /\ UNCHANGED <<browser, stdout, error, failures, calls>>

\* searchBook(query, searchType, searchField)
SearchMain ==
  /\ cmd = "search" /\ pc = "main"
  /\ OrElse(Query(argv), Null) # Null
  /\ pc' = "buildSearchUrl"
  /\ UNCHANGED <<cmd, argv, searchUrl, html, bookDetails, index, results>>
  /\ UNCHANGED runtime

\* const searchUrl = buildSearchUrl(query, searchType, searchField)
BuildSearchUrl ==
  /\ cmd = "search" /\ pc = "buildSearchUrl"
  /\ searchUrl' = buildSearchUrl(Query(argv), SearchType(argv), SearchField(argv))
  /\ pc' = "content"
  /\ UNCHANGED <<cmd, argv, html, bookDetails, index, results>>
  /\ UNCHANGED runtime

\* const html = await page.content(); parseSearchResults: const results = []
SearchContent ==
  /\ cmd = "search" /\ pc = "content"
  /\ html' \in SearchDocs
  /\ results' = <<>>
  /\ index' = 1
  /\ pc' = "each"
  /\ UNCHANGED <<cmd, argv, searchUrl, bookDetails>>
  /\ UNCHANGED runtime

\* one call of the .each() callback
EachRow ==
  /\ cmd = "search" /\ pc = "each"
  /\ index <= Len(html.rows)
  /\ results' = Push(results, parseBookData(html.rows[index]))
  /\ index' = index + 1
  /\ UNCHANGED <<cmd, pc, argv, searchUrl, html, bookDetails>>
  /\ UNCHANGED runtime

\* return results
SearchReturn ==
  /\ cmd = "search" /\ pc = "each"
  /\ index > Len(html.rows)
  /\ pc' = "return"
  /\ UNCHANGED <<cmd, argv, searchUrl, html, bookDetails, index, results>>
  /\ UNCHANGED runtime

NextSearch ==
  \/ SearchUsage
  \/ SearchMain
  \/ BuildSearchUrl
  \/ SearchContent
  \/ EachRow
  \/ SearchReturn

SpecSearch == InitSearch /\ [][NextSearch]_vars

----------------------------------------------------------------------------
(* the two processes: main, the browser, the acquisition, the exit *)

MaxCalls == 3

T_bookId == <<"3","3","5","4","7">>

\* process.argv of lookup: no argument, an empty one, an id
LookupArgvs == {<<>>, << <<>> >>, <<T_bookId>>}

\* the pages a run of the process may read
MainDetailDocs == {FullDoc, EmptyDoc, BlankDoc} \cup {Without(FullDoc, {sec}) : sec \in Sections}
MainSearchDocs == {[rows |-> rows] : rows \in SeqsUpTo({HellHouseRow, EmptyRow}, MaxRows)}

\* the inputs of repeated calls of parseBookDetails
CallDocs == {FullDoc, EmptyDoc, BlankDoc, Without(FullDoc, {"contributors", "genres"})}

InitMain ==
  /\ cmd \in {"lookup", "search"}
  /\ pc = "main"
  /\ argv \in IF cmd = "lookup" THEN LookupArgvs ELSE SearchArgvs
  /\ searchUrl = NoUrl
  /\ html = IF cmd = "lookup" THEN EmptyDoc ELSE [rows |-> <<>>]
  /\ bookDetails = initializeBookDetailsObject
  /\ index = 0
  /\ results = <<>>
  /\ InitRuntime

\* lookup: if (!goodreadsId) process.exit(1)
LookupUsage ==
  /\ cmd = "lookup" /\ pc = "main"
  /\ OrElse(Arg(argv, 2), Null) = Null
  /\ exitCode' = 1
  /\ pc' = "exit1"
  /\ UNCHANGED <<cmd, argv, searchUrl, html, bookDetails, index, results>>
  /\ UNCHANGED <<browser, stdout, stderr, error, failures, calls>>

\* lookup: lookupBook(goodreadsId)
LookupMain ==
  /\ cmd = "lookup" /\ pc = "main"
  /\ OrElse(Arg(argv, 2), Null) # Null
  /\ pc' = "initializeBrowser"
  /\ UNCHANGED <<cmd, argv, searchUrl, html, bookDetails, index, results>>
  /\ UNCHANGED runtime

\* search: searchBook(query, searchType, searchField)
SearchBook ==
  /\ cmd = "search" /\ pc = "main"
  /\ OrElse(Query(argv), Null) # Null
  /\ pc' = "initializeBrowser"
  /\ UNCHANGED <<cmd, argv, searchUrl, html, bookDetails, index, results>>
  /\ UNCHANGED runtime

\* a step outside the try block threw: the promise is rejected
Rejects(step) ==
  /\ error' = step
  /\ failures' = failures \cup {step}
  /\ pc' = "rejected"

\* a step inside the try block threw: the finally block runs
Throws(step) ==
  /\ error' = step
  /\ failures' = failures \cup {step}
  /\ pc' = "finally"

\* const { browser, page } = await initializeBrowser(), before the try block
InitializeBrowser ==
  /\ pc = "initializeBrowser"
  /\ \E outcome \in {"ok", "puppeteer.launch", "browser.newPage", "page.setUserAgent"} :
       /\ browser' = IF outcome = "puppeteer.launch" THEN browser
                     ELSE [browser EXCEPT !.launched = @ + 1]
       /\ IF outcome = "ok"
            THEN /\ pc' = IF cmd = "lookup" THEN "navigateToBookPage" ELSE "searchUrl"
                 /\ UNCHANGED <<error, failures>>
            ELSE Rejects(outcome)
  /\ UNCHANGED <<cmd, argv, searchUrl, html, bookDetails, index, results>>
  /\ UNCHANGED <<stdout, stderr, exitCode, calls>>

\* lookup: await navigateToBookPage(page, goodreadsId)
NavigateToBookPage ==
  /\ cmd = "lookup" /\ pc = "navigateToBookPage"
  /\ \E outcome \in {"ok", "page.goto", "page.waitForSelector", "page.evaluate"} :
       IF outcome = "ok"
         THEN pc' = "handleBookDetailsExpansion" /\ UNCHANGED <<error, failures>>
         ELSE Throws(outcome)
  /\ UNCHANGED <<cmd, argv, searchUrl, html, bookDetails, index, results>>
  /\ UNCHANGED <<browser, stdout, stderr, exitCode, calls>>

\* the steps of handleBookDetailsExpansion the specification calls optional
OptionalSteps ==
  {"waitForSelector(detailsButton)", "waitForSelector(.EditionDetails)",
   "waitForNavigation", "detailsButton.click",
   "waitForSelector(moreGenresButton)", "moreGenresButton.click"}

\* the two waits of the first Promise.all, each with .catch(() => null)
WaitDetailsButton ==
  /\ cmd = "lookup" /\ pc = "handleBookDetailsExpansion"
  /\ \E detailsButton \in BOOLEAN, editionDetails \in BOOLEAN :
       /\ failures' = failures
            \cup (IF detailsButton THEN {} ELSE {"waitForSelector(detailsButton)"})
            \cup (IF editionDetails THEN {} ELSE {"waitForSelector(.EditionDetails)"})
       /\ pc' = IF detailsButton THEN "detailsButton.click" ELSE "moreGenresButton"
  /\ UNCHANGED <<cmd, argv, searchUrl, html, bookDetails, index, results>>
  /\ UNCHANGED <<browser, stdout, stderr, exitCode, error, calls>>

\* Promise.all([waitForNavigation(...).catch(() => {}), detailsButton.click()])
\* and the wait for .EditionDetails after it, with .catch(() => {})
ClickDetailsButton ==
  /\ cmd = "lookup" /\ pc = "detailsButton.click"
  /\ \E navigated \in BOOLEAN, clicked \in BOOLEAN, editionDetails \in BOOLEAN :
       LET caught == IF navigated THEN {} ELSE {"waitForNavigation"}
       IN  IF clicked
             THEN /\ failures' = failures \cup caught
                      \cup (IF editionDetails THEN {} ELSE {"waitForSelector(.EditionDetails)"})
                  /\ pc' = "moreGenresButton"
                  /\ UNCHANGED error
             ELSE /\ error' = "detailsButton.click"
                  /\ failures' = failures \cup caught \cup {"detailsButton.click"}
                  /\ pc' = "finally"
  /\ UNCHANGED <<cmd, argv, searchUrl, html, bookDetails, index, results>>
  /\ UNCHANGED <<browser, stdout, stderr, exitCode, calls>>

\* const moreGenresButton = await page.waitForSelector(...).catch(() => null)
WaitMoreGenresButton ==
  /\ cmd = "lookup" /\ pc = "moreGenresButton"
  /\ \E moreGenresButton \in BOOLEAN :
       /\ failures' = failures
            \cup (IF moreGenresButton THEN {} ELSE {"waitForSelector(moreGenresButton)"})
       /\ pc' = IF moreGenresButton THEN "moreGenresButton.click" ELSE "content"
  /\ UNCHANGED <<cmd, argv, searchUrl, html, bookDetails, index, results>>
  /\ UNCHANGED <<browser, stdout, stderr, exitCode, error, calls>>

\* if (moreGenresButton) { await moreGenresButton.click(); ... }
ClickMoreGenresButton ==
  /\ cmd = "lookup" /\ pc = "moreGenresButton.click"
  /\ \E clicked \in BOOLEAN :
       IF clicked
         THEN pc' = "content" /\ UNCHANGED <<error, failures>>
         ELSE Throws("moreGenresButton.click")
  /\ UNCHANGED <<cmd, argv, searchUrl, html, bookDetails, index, results>>
  /\ UNCHANGED <<browser, stdout, stderr, exitCode, calls>>

\* lookup: const html = await page.content(); parseBookDetails: cheerio.load(html)
LookupPageContent ==
  /\ cmd = "lookup" /\ pc = "content"
  /\ \/ /\ html' \in MainDetailDocs
        /\ pc' = "parseBookDetails"
        /\ UNCHANGED <<error, failures>>
     \/ /\ \E step \in {"page.content", "cheerio.load"} : Throws(step)
        /\ UNCHANGED html
  /\ UNCHANGED <<cmd, argv, searchUrl, bookDetails, index, results>>
  /\ UNCHANGED <<browser, stdout, stderr, exitCode, calls>>

\* search: const searchUrl = buildSearchUrl(query, searchType, searchField)
SearchUrl ==
  /\ cmd = "search" /\ pc = "searchUrl"
  /\ searchUrl' = buildSearchUrl(Query(argv), SearchType(argv), SearchField(argv))
  /\ pc' = "navigateToSearchPage"
  /\ UNCHANGED <<cmd, argv, html, bookDetails, index, results>>
  /\ UNCHANGED runtime

\* search: await navigateToSearchPage(page, searchUrl, query, searchType, searchField)
NavigateToSearchPage ==
  /\ cmd = "search" /\ pc = "navigateToSearchPage"
  /\ stdout' = Append(stdout, Line([query |-> Query(argv), searchType |-> SearchType(argv),
                                     searchField |-> SearchField(argv), url |-> searchUrl]))
  /\ \E outcome \in {"ok", "page.goto", "page.waitForSelector"} :
       IF outcome = "ok"
         THEN pc' = "content" /\ UNCHANGED <<error, failures>>
         ELSE Throws(outcome)
  /\ UNCHANGED <<cmd, argv, searchUrl, html, bookDetails, index, results>>
  /\ UNCHANGED <<browser, stderr, exitCode, calls>>

\* search: const html = await page.content(); parseSearchResults: cheerio.load(html),
\* const results = []
SearchPageContent ==
  /\ cmd = "search" /\ pc = "content"
  /\ \/ /\ html' \in MainSearchDocs
        /\ results' = <<>>
        /\ index' = 1
        /\ pc' = "each"
        /\ UNCHANGED <<error, failures>>
     \/ /\ \E step \in {"page.content", "cheerio.load"} : Throws(step)
        /\ UNCHANGED <<html, results, index>>
  /\ UNCHANGED <<cmd, argv, searchUrl, bookDetails>>
  /\ UNCHANGED <<browser, stdout, stderr, exitCode, calls>>

\* finally { await browser.close() }: after the return or the throw; a close
\* that throws replaces the outcome of the try block
Finally ==
  /\ pc \in {"return", "finally"}
  /\ browser' = [browser EXCEPT !.closed = @ + 1]
  /\ \E closed \in BOOLEAN :
       IF closed
         THEN /\ pc' = IF error = "none" THEN "resolved" ELSE "rejected"
              /\ UNCHANGED <<error, failures>>
         ELSE Rejects("browser.close")
  /\ UNCHANGED <<cmd, argv, searchUrl, html, bookDetails, index, results>>
  /\ UNCHANGED <<stdout, stderr, exitCode, calls>>

\* lookup: .then(bookDetails => console.log(JSON.stringify(bookDetails, null, 2)))
LookupThen ==
  /\ cmd = "lookup" /\ pc = "resolved"
  /\ stdout' = Append(stdout, Stringify(bookDetails))
  /\ pc' = "exit"
  /\ UNCHANGED <<cmd, argv, searchUrl, html, bookDetails, index, results>>
  /\ UNCHANGED <<browser, stderr, exitCode, error, failures, calls>>

\* an exit that leaves the exit code as it is
LookupCatchSwallows ==
  /\ cmd = "lookup" /\ pc = "rejected"
  /\ pc' = "exit"
  /\ UNCHANGED <<cmd, argv, searchUrl, html, bookDetails, index, results>>
  /\ UNCHANGED runtime

\* lookup: .catch(error => process.exit(1))
LookupCatch ==
  /\ cmd = "lookup" /\ pc = "rejected"
  /\ exitCode' = 1
  /\ pc' = "exit1"
  /\ UNCHANGED <<cmd, argv, searchUrl, html, bookDetails, index, results>>
  /\ UNCHANGED <<browser, stdout, stderr, error, failures, calls>>

\* search: .then(results => console.log(JSON.stringify(results, null, 2)))
SearchThen ==
  /\ cmd = "search" /\ pc = "resolved"
  /\ stdout' = Append(stdout, Stringify(results))
  /\ pc' = "exit"
  /\ UNCHANGED <<cmd, argv, searchUrl, html, bookDetails, index, results>>
  /\ UNCHANGED <<browser, stderr, exitCode, error, failures, calls>>

\* search: .catch(error => { console.error('Error:', error); process.exit(1) })
SearchCatch ==
  /\ cmd = "search" /\ pc = "rejected"
  /\ stderr' = Append(stderr, Line(error))
  /\ exitCode' = 1
  /\ pc' = "exit1"
  /\ UNCHANGED <<cmd, argv, searchUrl, html, bookDetails, index, results>>
  /\ UNCHANGED <<browser, stdout, error, failures, calls>>

NextMain ==
  \/ LookupUsage
  \/ LookupMain
  \/ SearchUsage
  \/ SearchBook
  \/ InitializeBrowser
  \/ NavigateToBookPage
  \/ WaitDetailsButton
  \/ ClickDetailsButton
  \/ WaitMoreGenresButton
  \/ ClickMoreGenresButton
  \/ LookupPageContent
  \/ ParseBookDetails
  \/ ParseTitleAndSeries
  \/ ParseAuthors
  \/ ParseRatings
  \/ ParseGenres
  \/ ParseBasicDetails
  \/ ParseDescription
  \/ ParseCoverImage
  \/ ParseEditionDetails
  \/ ParseSettings
  \/ SearchUrl
  \/ NavigateToSearchPage
  \/ SearchPageContent
  \/ EachRow
  \/ SearchReturn
  \/ Finally
  \/ LookupThen
  \/ LookupCatch
  \/ SearchThen
  \/ SearchCatch

SpecMain == InitMain /\ [][NextMain]_vars

----------------------------------------------------------------------------
(* parseBookDetails called again and again in one process *)

InitCalls ==
  /\ cmd = "lookup"
  /\ pc = "idle"
  /\ argv = <<T_bookId>>
  /\ searchUrl = NoUrl
  /\ html = EmptyDoc
  /\ bookDetails = initializeBookDetailsObject
  /\ index = 0
  /\ results = <<>>
  /\ InitRuntime

\* parseBookDetails(html): const $ = cheerio.load(html)
CallParseBookDetails ==
  /\ cmd = "lookup" /\ pc = "idle"
  /\ Len(calls) < MaxCalls
  /\ html' \in CallDocs
  /\ pc' = "parseBookDetails"
  /\ UNCHANGED <<cmd, argv, searchUrl, bookDetails, index, results>>
  /\ UNCHANGED runtime

\* return bookDetails
ReturnBookDetails ==
  /\ cmd = "lookup" /\ pc = "return"
  /\ calls' = Append(calls, [html |-> html, bookDetails |-> bookDetails])
  /\ pc' = "idle"
  /\ UNCHANGED <<cmd, argv, searchUrl, html, bookDetails, index, results>>
  /\ UNCHANGED <<browser, stdout, stderr, exitCode, error, failures>>

NextCalls ==
  \/ CallParseBookDetails
  \/ ParseBookDetails
  \/ ParseTitleAndSeries
  \/ ParseAuthors
  \/ ParseRatings
  \/ ParseGenres
  \/ ParseBasicDetails
  \/ ParseDescription
  \/ ParseCoverImage
  \/ ParseEditionDetails
  \/ ParseSettings
  \/ ReturnBookDetails

SpecCalls == InitCalls /\ [][NextCalls]_vars

----------------------------------------------------------------------------
(* Properties *)

\* the rows .each() has been called on
Parsed == IF cmd = "search" THEN 1..Len(results) ELSE {}

\* the record of a finished parseBookDetails
Returned == cmd = "lookup" /\ pc = "return"

\* a row's title link with a given href
WithHref(el, href) == [el EXCEPT !.bookTitle = <<[Head(@) EXCEPT !.href = href]>> \o Tail(@)]

\* C1: a search row whose title link has no href attribute gives detailsUrl =
\* null and goodreadsId = null, and its title, authors, publishedYear,
\* averageRating and numberOfRatings are those the row gives with the href there.
C1_NoHrefGivesNull ==
  \A i \in Parsed :
    LET el == html.rows[i]
        linked == parseBookData(WithHref(el, <<"/","b","o","o","k","/","s","h","o","w","/","3","3","5","4","7">>))
    IN (el.bookTitle # <<>> /\ Head(el.bookTitle).href = Undefined) =>
         /\ results[i].detailsUrl = Null
         /\ results[i].goodreadsId = Null
         /\ results[i].title = linked.title
         /\ results[i].authors = linked.authors
         /\ results[i].publishedYear = linked.publishedYear
         /\ results[i].averageRating = linked.averageRating
         /\ results[i].numberOfRatings = linked.numberOfRatings

\* the sections of a detail page that are missing: the selection is empty
MissingSections(doc) ==
  {sec \in Sections :
     CASE sec = "title" -> doc.titleSection = <<>>
       [] sec = "contributors" -> doc.contributors = <<>>
       [] sec = "rating" -> doc.rating = <<>>
       [] sec = "meta" -> doc.meta = <<>>
       [] sec = "genres" -> doc.genres = <<>>
       [] sec = "pages" -> doc.pagesFormat = <<>>
       [] sec = "publication" -> doc.publicationInfo = <<>>
       [] sec = "description" -> doc.description = <<>>
       [] sec = "cover" -> doc.cover = <<>>
       [] OTHER -> \A k \in 1..Len(doc.descList) : ItemSection(doc.descList[k]) # sec}

\* C2: in the record of a detail page, each field fed by a missing section has
\* its absence value (null, or the empty sequence for authors, genres and
\* settings), and each field fed by a present section has the value it has
\* when no section is missing.
C2_MissingSectionsAbsent ==
  Returned =>
    LET missing == MissingSections(html)
        absent == initializeBookDetailsObject
        whole == parseBookDetails(Replace(html, missing, FullDoc))
        from(sec) == IF sec \in missing THEN absent ELSE whole
    IN /\ bookDetails.title = from("title").title
       /\ bookDetails.series = from("title").series
       /\ bookDetails.authors = from("contributors").authors
       /\ bookDetails.rating = from("rating").rating
       /\ bookDetails.numberOfRatings = from("meta").numberOfRatings
       /\ bookDetails.numberOfReviews = from("meta").numberOfReviews
       /\ bookDetails.genres = from("genres").genres
       /\ bookDetails.numberOfPages = from("pages").numberOfPages
       /\ bookDetails.firstPublished = from("publication").firstPublished
       /\ bookDetails.description = from("description").description
       /\ bookDetails.coverImage = from("cover").coverImage
       /\ bookDetails.editionDetails = from("details").editionDetails
       /\ bookDetails.settings = from("setting").settings

\* the expand-list labels of the page variants
Sentinels == {S_showAll, S_more}

\* C3: genres holds the chips in document order without those whose trimmed
\* text is an expand-list label, '...show all' or '...more'.
C3_NoSentinelGenre ==
  Returned =>
    bookDetails.genres =
      SelectSeq([i \in 1..Len(html.genres) |-> Trim(html.genres[i])],
                LAMBDA chip : chip \notin Sentinels)

\* the scalar text fields of a detail record and of a search record
DetailScalars(bd) ==
  {bd.title, bd.series, bd.rating, bd.numberOfRatings, bd.numberOfReviews,
   bd.numberOfPages, bd.firstPublished, bd.description, bd.coverImage,
   bd.editionDetails.format, bd.editionDetails.published, bd.editionDetails.isbn13,
   bd.editionDetails.isbn10, bd.editionDetails.asin, bd.editionDetails.language}

SearchScalars(book) ==
  {book.title, book.detailsUrl, book.goodreadsId, book.publishedYear,
   book.averageRating, book.numberOfRatings}

\* C5: no scalar text field of a record is the empty string.
C5_NoEmptyString ==
  /\ Returned => <<>> \notin DetailScalars(bookDetails)
  /\ \A i \in Parsed : <<>> \notin SearchScalars(results[i])

\* null, or a non-empty text of decimal digits
IsCount(v) == v = Null \/ (v # <<>> /\ \A k \in 1..Len(v) : v[k] \in Digits)

\* C9: numberOfRatings, and numberOfReviews of a detail record, is null or a
\* non-empty text of decimal digits only.
C9_CountsAreDigits ==
  /\ Returned => IsCount(bookDetails.numberOfRatings) /\ IsCount(bookDetails.numberOfReviews)
  /\ \A i \in Parsed : IsCount(results[i].numberOfRatings)

\* the values the URL's query carries under a name
Carried(url, name) == {url.params[k].value : k \in {j \in 1..Len(url.params) : url.params[j].name = name}}

\* C10: `goodreads-search <query> <field>` with field title or author fetches a
\* URL that carries search[field]=<field> and the book search type; with the
\* field omitted or 'all' the URL carries no search[field].
C10_FieldRestrictsSearch ==
  (cmd = "search" /\ searchUrl # NoUrl) =>
    /\ (Len(argv) = 2 /\ argv[2] \in {T_title, T_author}) =>
         /\ Carried(searchUrl, "search[field]") = {argv[2]}
         /\ Carried(searchUrl, "search_type") = {S_books}
    /\ (Len(argv) = 1 \/ (Len(argv) = 2 /\ argv[2] = S_all)) =>
         Carried(searchUrl, "search[field]") = {}

\* the text parseSettings splits
SettingsText(doc) == Trim(Text(Truncated(SettingsContainer(doc))))

\* a text without a parenthetical, with single spaces only and none at an end
IsNormalized(e) ==
  /\ \A k \in 1..Len(e) :
       IsSpace(e[k]) => e[k] = " " /\ k > 1 /\ k < Len(e) /\ ~IsSpace(e[k - 1])
  /\ ~\E i, j \in 1..Len(e) : i < j /\ e[i] = "(" /\ e[j] = ")"

\* C4: settings holds no two equal entries, its entries are the comma-separated
\* pieces of the Setting text, each without its parentheticals, with its
\* whitespace collapsed and trimmed; 'London (England), London (England),
\* Paris' gives the set {London, Paris}.
C4_SettingsDeduplicated ==
  (Returned /\ SettingsContainer(html) # <<>>) =>
    LET pieces == Split(SettingsText(html))
        settings == bookDetails.settings
    IN /\ \A i, j \in 1..Len(settings) : i # j => settings[i] # settings[j]
       /\ {settings[i] : i \in 1..Len(settings)}
            = {CleanSetting(pieces[k]) : k \in 1..Len(pieces)}
       /\ \A i \in 1..Len(settings) : IsNormalized(settings[i])
       /\ SettingsText(html) = T_London =>
            {settings[i] : i \in 1..Len(settings)} = {<<"L","o","n","d","o","n">>, <<"P","a","r","i","s">>}

C4_Witness ==
  /\ Returned
  /\ SettingsText(html) = T_London
  /\ bookDetails.settings = <<<<"L","o","n","d","o","n">>, <<"P","a","r","i","s">>>>

\* the trimmed dd texts of the items labelled isbn, the label lower-cased
IsbnTexts(doc) ==
  LET items == SelectSeq(doc.descList, LAMBDA el : ToLowerCase(Trim(el.dt)) = S_isbn)
  IN [k \in 1..Len(items) |-> Trim(items[k].dd)]

StartsWith13Digits(v) ==
  Len(v) >= Isbn13Length /\ \A k \in 1..Isbn13Length : v[k] \in Digits

\* 'ISBN10:' stands at i, whitespace only up to w, and ten digits from w
TaggedIsbn10(v, i, w) ==
  /\ HasAt(v, i, S_ISBN10)
  /\ w >= i + Len(S_ISBN10)
  /\ w + Isbn10Length - 1 <= Len(v)
  /\ \A k \in (i + Len(S_ISBN10))..(w - 1) : IsSpace(v[k])
  /\ \A k \in w..(w + Isbn10Length - 1) : v[k] \in Digits

Isbn10Places(v) == {place \in (1..Len(v)) \X (1..Len(v)) : TaggedIsbn10(v, place[1], place[2])}

\* the ten digits after the leftmost 'ISBN10:' that has them
Isbn10In(v) ==
  LET place == CHOOSE q \in Isbn10Places(v) : \A r \in Isbn10Places(v) : q[1] <= r[1]
  IN SubSeq(v, place[2], place[2] + Isbn10Length - 1)

\* C6: under the label isbn, isbn13 is the leading 13 digits of the value if
\* and only if the value starts with 13 digits, isbn10 the ten digits after
\* 'ISBN10:' if and only if the value holds them, neither depending on the
\* other; an item that sets neither leaves both as they were.
\* '9780727860996ISBN10: 0727860992' gives both.
C6_IsbnIndependent ==
  Returned =>
    LET values == IsbnTexts(html)
        with13 == {k \in 1..Len(values) : StartsWith13Digits(values[k])}
        with10 == {k \in 1..Len(values) : Isbn10Places(values[k]) # {}}
        ed == bookDetails.editionDetails
    IN /\ ed.isbn13 = IF with13 = {} THEN Null
                      ELSE SubSeq(values[SetMax(with13)], 1, Isbn13Length)
       /\ ed.isbn10 = IF with10 = {} THEN Null ELSE Isbn10In(values[SetMax(with10)])
       /\ values = <<T_isbnValue>> =>
            ed.isbn13 = <<"9","7","8","0","7","2","7","8","6","0","9","9","6">> /\ ed.isbn10 = <<"0","7","2","7","8","6","0","9","9","2">>

C6_Witness ==
  /\ Returned
  /\ IsbnTexts(html) = <<<<"I","S","B","N","1","0",":"," ","0","7","2","7","8","6","0","9","9","2">>>>
  /\ bookDetails.editionDetails.isbn13 = Null
  /\ bookDetails.editionDetails.isbn10 = <<"0","7","2","7","8","6","0","9","9","2">>

\* .text() of the nodes of a title block that carry one of the tags
BlockText(nodes, tags) ==
  Text([k \in 1..Len(nodes) |-> IF nodes[k].tag \in tags THEN nodes[k].text ELSE <<>>])

\* C7: with an italic-link series child in the title block, series is not null
\* and title is the text of the heading alone; without one, series is null
\* and title is the text of the whole block.
C7_SeriesSplitsTitle ==
  (Returned /\ html.titleSection # <<>>) =>
    LET nodes == Flatten(html.titleSection)
    IN IF \E k \in 1..Len(nodes) : nodes[k].tag = "series"
       THEN /\ bookDetails.series # Null
            /\ bookDetails.series = Trim(BlockText(nodes, {"series"}))
            /\ bookDetails.title = Trim(BlockText(nodes, {"h1"}))
       ELSE /\ bookDetails.series = Null
            /\ bookDetails.title = Trim(BlockText(nodes, {"h1", "text"}))

C7_Witness ==
  /\ Returned
  /\ Len(html.titleSection) = 1
  /\ Len(html.titleSection[1]) = 3
  /\ {html.titleSection[1][k].tag : k \in 1..3} = {"h1", "series", "text"}
  /\ bookDetails.series = T_Saga
  /\ bookDetails.title = T_HellHouse

\* C8: parseSearchResults returns one record per row, the i-th from the i-th
\* row in document order, whatever a row lacks.
C8_RowsInOrder ==
  cmd = "search" =>
    /\ Len(results) <= Len(html.rows)
    /\ pc = "return" => Len(results) = Len(html.rows)
    /\ \A i \in 1..Len(results) : results[i] = parseBookData(html.rows[i])

C8_Witness ==
  /\ cmd = "search" /\ pc = "return"
  /\ html.rows = <<EmptyRow, HellHouseRow>>
  /\ Len(results) = 2
  /\ results[1].title = Null
  /\ results[2].title = T_HellHouse

----------------------------------------------------------------------------
(* Properties of the processes *)

\* the run was given no first argument, or an empty one
MissingArgument == OrElse(Arg(argv, 2), Null) = Null

\* a failure has reached the top level of the command
FailedAtTopLevel == (MissingArgument /\ pc # "main") \/ error # "none"

\* the process has ended
Exited == pc \in {"exit", "exit1"}

\* a JSON payload is on standard output
PayloadWritten == \E i \in 1..Len(stdout) : stdout[i].json

\* C11: on every failure that reaches the top level of either command (missing
\* argument, browser launch failure, navigation timeout, required section not
\* appearing, failure while parsing), the JSON payload is never written to
\* standard output and the process, when it ends, ends with a non-zero exit code.
C11_FailureExitsNonZero ==
  FailedAtTopLevel =>
    /\ ~PayloadWritten
    /\ pc \notin {"resolved", "exit"}
    /\ Exited => exitCode # 0

\* search has ended on a navigation timeout, its progress line on standard
\* output and the error on standard error
C11_Witness ==
  /\ cmd = "search" /\ pc = "exit1"
  /\ error = "page.goto"
  /\ exitCode = 1
  /\ Len(stdout) = 1 /\ ~stdout[1].json
  /\ Len(stderr) = 1

\* standard output as a whole parses as the JSON text of value
ParsesAs(out, value) == Len(out) = 1 /\ out[1].json /\ out[1].value = value

\* C12: on every successful run of the search command the process exits with
\* code 0 and standard output as a whole parses as the JSON array of the search
\* records, with no other line written before or after the payload.
C12_StdoutIsThePayload ==
  (cmd = "search" /\ pc = "exit" /\ error = "none") =>
    /\ exitCode = 0
    /\ ParsesAs(stdout, results)

\* only steps the specification calls optional have failed or timed out
OnlyOptionalStepsFailed == failures # {} /\ failures \subseteq OptionalSteps

\* C13: in handleBookDetailsExpansion a failure or timeout of any optional step
\* (the wait for the details button, its click, the navigation wait after it,
\* the wait for the edition details, the wait for the genres button, its click)
\* never fails the fetch: lookupBook is not rejected and the process does not
\* end in failure.
C13_OptionalStepsNeverFail ==
  (cmd = "lookup" /\ OnlyOptionalStepsFailed) =>
    /\ error = "none"
    /\ pc \notin {"finally", "rejected", "exit1"}

\* C14: any two calls of parseBookDetails on the same input, in any order and
\* with calls on other inputs between them, return equal records, and none
\* depends on a call before it: each returns what a first call on its input
\* returns.
C14_ParseBookDetailsIsPure ==
  /\ \A i \in 1..Len(calls), j \in 1..Len(calls) :
       calls[i].html = calls[j].html => calls[i].bookDetails = calls[j].bookDetails
  /\ \A i \in 1..Len(calls) : calls[i].bookDetails = parseBookDetails(calls[i].html)

\* the README's page parsed, another page parsed, the README's page parsed again
C14_Witness ==
  /\ Len(calls) = 3
  /\ calls[1].html = FullDoc /\ calls[3].html = FullDoc
  /\ calls[2].html = BlankDoc
  /\ Len(calls[3].bookDetails.authors) > 0
  /\ Len(calls[3].bookDetails.genres) > 0

\* lookupBook or searchBook has settled, or the process has ended
Settled == pc \in {"resolved", "rejected", "exit", "exit1"}

\* C15: once the browser has been launched it is closed before the promise of
\* lookupBook or searchBook settles, on every path, and browser.close() is
\* called exactly once per launched browser.
C15_BrowserClosedOnce ==
  /\ browser.closed <= browser.launched
  /\ Settled => browser.closed = browser.launched

====
